---- MODULE Spec2Model ----
(***************************************************************************)
(* A model of the interactive shell of src/shell.cpp: the read loop, the   *)
(* cd built-in, the pipeline set-up loop with its descriptor discipline,   *)
(* the foreground wait and the background job list.                        *)
(*                                                                         *)
(* The shell is one process (variable pc is its position in main); every   *)
(* forked child is a process of its own that runs the child branch         *)
(* (ChildBranch), then the target program, then exits (ChildExit).         *)
(***************************************************************************)
EXTENDS Integers, Sequences, FiniteSets, TLC

\* ------------------------------------------------------------ bounds
\* stages of one pipeline
MaxStages == 3
\* children forked in one run of the shell: a line is read only while the
\* stages of all lines read so far number at most this
MaxPids == 3
\* directories another process removes in one run
MaxGone == 1

Pids == 1..MaxPids
\* size of a process's descriptor table
NumFds == 2 * MaxStages + 3
FdSet == 0..(NumFds - 1)

\* ------------------------------------------------------------ constants
STDIN_FILENO == 0
STDOUT_FILENO == 1
WNOHANG == 1
\* options 0 of a waitpid call: wait until the child has changed state
NoFlags == 0
\* open file descriptions: what a descriptor slot refers to
Closed == 0
StdinObj == 1
StdoutObj == 2
StderrObj == 3
InFileObj == 4
OutFileObj == 5
PipeBase == 10
ReadEnd(k) == PipeBase + 2 * k
WriteEnd(k) == PipeBase + 2 * k + 1
\* getenv() returned NULL
Null == "<null>"

\* ------------------------------------------------------------ the file system
\* the directories, named by their canonical paths
Dirs == {"/a", "/b"}
\* "/l" is a symbolic link to /a, "/x" does not exist
PathArgs == {"/a", "/b", "/l", "/x"}
Resolve(path) == IF path \in Dirs THEN path ELSE IF path = "/l" THEN "/a" ELSE ""

VARIABLES
  pc,                   \* where the shell is in main
  previousDir,          \* global previousDir
  background_pids,      \* global background_pids
  cwd, gone, home,      \* the working directory, the removed directories, $HOME
  cmds,                 \* tknr.commands of the current iteration
  origStdin, origStdout, i, pipeInFd, pipeFd, lastPid, pipePids,
  pipeline_setup_error, \* locals of the current iteration
  pipes,                \* the pipes created by the current set-up loop, in order
  child,                \* how the child branch of the last fork of this loop went
  fdt,                  \* the shell's descriptor table
  held, badClose,       \* descriptors opened by this dispatch and still open; a close that hit none of them
  procs,                \* the children forked so far: state, descriptor table, copy of the locals
  nextPid,              \* the next process identifier
  dispatch,             \* how the last dispatch of external commands went, until the next poll
  cdResult, printed,    \* outcome of the last cd and the path it printed, until the next poll
  cdHist,               \* the state before the last successful cd
  everChanged,          \* a chdir succeeded in this session
  doneNum, announced,   \* the number shown in a pid's Done notice / job start notice
  jobOf,                \* the background pipeline a pid was registered with, named by its first pid
  polled                \* the last poll: the pids it called waitpid on and those it reported, in order

vars == <<pc, previousDir, background_pids, cwd, gone, home, cmds,
          origStdin, origStdout, i, pipeInFd, pipeFd, lastPid, pipePids,
          pipeline_setup_error, pipes, child, fdt, held, badClose, procs,
          nextPid, dispatch, cdResult, printed, cdHist, everChanged, doneNum,
          announced, jobOf, polled>>

dirVars == <<previousDir, cwd, cdResult, printed, cdHist, everChanged>>
localVars == <<origStdin, origStdout, i, pipeInFd, pipeFd, lastPid, pipePids,
               pipeline_setup_error, pipes, child>>
fdVars == <<fdt, held, badClose>>
procVars == <<procs, nextPid>>
jobVars == <<background_pids, doneNum, announced, jobOf, polled>>

\* ------------------------------------------------------------ commands
Cmd(args, in, out, bg) == [args |-> args, in |-> in, out |-> out, bg |-> bg]
hasInput(c) == c.in
hasOutput(c) == c.out
isBackground(c) == c.bg

NoDispatch == [result |-> "none", k |-> 0, n |-> 0]
NoPoll == [checked |-> <<>>, done |-> <<>>]
NoChild == [pid |-> -1, fail |-> "none", created |-> FALSE]
NoHist == [valid |-> FALSE, dash |-> FALSE, afterDash |-> FALSE, known |-> FALSE,
           cwd |-> "", prev |-> ""]
\* a descriptor table maps the open descriptors to what they refer to
AllClosed == [f \in {} |-> Closed]
InitialFdt == [f \in 0..2 |-> IF f = 0 THEN StdinObj ELSE IF f = 1 THEN StdoutObj
                               ELSE StderrObj]
FdOpen(t, f) == f \in DOMAIN t
FdObj(t, f) == IF f \in DOMAIN t THEN t[f] ELSE Closed

\* ------------------------------------------------------------ start-up
\* previousDir after lines 41-51: $PWD when set, else getcwd(), else empty
InitialPreviousDir(pwd, dir, removed) ==
  IF pwd # Null THEN pwd ELSE IF dir \notin removed THEN dir ELSE ""

InitRest ==
  /\ pc = "poll"
  /\ background_pids = <<>>
  /\ cmds = <<>>
  /\ origStdin = -1 /\ origStdout = -1 /\ i = 0 /\ pipeInFd = STDIN_FILENO
  /\ pipeFd = <<-1, -1>> /\ lastPid = -1 /\ pipePids = <<>>
  /\ pipeline_setup_error = FALSE
  /\ pipes = <<>> /\ child = NoChild
  /\ fdt = InitialFdt /\ held = {} /\ badClose = FALSE
  /\ procs = [p \in {} |-> 0]
  /\ nextPid = 1 /\ dispatch = NoDispatch
  /\ cdResult = "none" /\ printed = "" /\ cdHist = NoHist /\ everChanged = FALSE
  /\ doneNum = [p \in {} |-> 0]
  /\ announced = [p \in {} |-> 0]
  /\ jobOf = [p \in {} |-> 0]
  /\ polled = NoPoll

\* the shell started from /a with PWD=/a and HOME=/b
Init ==
  /\ cwd = "/a" /\ gone = {} /\ home = "/b"
  /\ previousDir = InitialPreviousDir("/a", cwd, gone)
  /\ InitRest

\* any start-up environment
InitCd ==
  /\ cwd \in Dirs
  /\ gone \in {g \in SUBSET Dirs : Cardinality(g) <= MaxGone}
  /\ home \in {Null, "/b"}
  /\ \E pwd \in {Null, "", "/a", "/b", "/l"} :
       previousDir = InitialPreviousDir(pwd, cwd, gone)
  /\ InitRest

\* ------------------------------------------------------------ waitpid
\* waitpid(p, &status, flags) on process table ps: the value returned, the
\* table afterwards, and whether the call would suspend the caller
\* what is left of a child once it has been waited for
Reaped == [st |-> "reaped", fds |-> AllClosed]

\* a waitpid that never finds a child that has exited
MutWaitPidNeverReaps(ps, p, flags) ==
  [result |-> 0, ps |-> ps, blocked |-> FALSE]

WaitPid(ps, p, flags) ==
  IF p \notin DOMAIN ps \/ ps[p].st = "reaped"
    THEN [result |-> -1, ps |-> ps, blocked |-> FALSE]
  ELSE IF ps[p].st = "zombie"
    THEN [result |-> p, ps |-> [ps EXCEPT ![p] = Reaped], blocked |-> FALSE]
  ELSE IF flags = WNOHANG
    THEN [result |-> 0, ps |-> ps, blocked |-> FALSE]
  ELSE [result |-> 0, ps |-> ps, blocked |-> TRUE]

\* vector::erase at 1-based position it
Erase(s, it) == [k \in 1..(Len(s) - 1) |-> IF k < it THEN s[k] ELSE s[k + 1]]

\* ------------------------------------------------------------ top of the loop
\* the flags of the waitpid call of line 58
PollFlags == WNOHANG

\* one more waitpid call, on pid p, before the calls of r
Checked(p, r) == [r EXCEPT !.checked = <<p>> \o @]
\* one more Done notice, for pid p, before the notices of r
Noticed(p, r) == [r EXCEPT !.done = <<p>> \o @]

\* a loop that would step the iterator once more after an erase
RECURSIVE MutPollLoopSkipsAfterErase(_, _, _, _)
MutPollLoopSkipsAfterErase(bp, it, ps, dn) ==
  IF it > Len(bp)
    THEN [bp |-> bp, ps |-> ps, dn |-> dn, blocked |-> FALSE, checked |-> <<>>, done |-> <<>>]
  ELSE LET r == WaitPid(ps, bp[it], PollFlags) IN
    IF r.result = 0
      THEN Checked(bp[it], MutPollLoopSkipsAfterErase(bp, it + 1, r.ps, dn))
    ELSE IF r.result = -1
      THEN Checked(bp[it], MutPollLoopSkipsAfterErase(Erase(bp, it), it + 1, r.ps, dn))
    ELSE Checked(bp[it], Noticed(bp[it],
           MutPollLoopSkipsAfterErase(Erase(bp, it), it + 1, r.ps, (bp[it] :> it) @@ dn)))

\* the reaping loop of lines 56-71, iterator at 1-based position it: the
\* list, the children and the Done numbers afterwards, and the waitpid
\* calls and Done notices it made from position it on
RECURSIVE PollLoop(_, _, _, _)
PollLoop(bp, it, ps, dn) ==
  IF it > Len(bp)
    THEN [bp |-> bp, ps |-> ps, dn |-> dn, blocked |-> FALSE, checked |-> <<>>, done |-> <<>>]
  ELSE LET r == WaitPid(ps, bp[it], PollFlags) IN
    IF r.blocked
      THEN [bp |-> bp, ps |-> ps, dn |-> dn, blocked |-> TRUE, checked |-> <<bp[it]>>,
            done |-> <<>>]
    ELSE IF r.result = 0 THEN Checked(bp[it], PollLoop(bp, it + 1, r.ps, dn))
    ELSE IF r.result = -1 THEN Checked(bp[it], PollLoop(Erase(bp, it), it, r.ps, dn))
    ELSE Checked(bp[it], Noticed(bp[it],
           PollLoop(Erase(bp, it), it, r.ps, (bp[it] :> it) @@ dn)))

Poll ==
  /\ pc = "poll"
  /\ LET r == PollLoop(background_pids, 1, procs, doneNum) IN
       /\ ~r.blocked
       /\ background_pids' = r.bp
       /\ procs' = r.ps
       /\ doneNum' = r.dn
       /\ polled' = [checked |-> r.checked, done |-> r.done]
  /\ pc' = "prompt"
  /\ cdResult' = "none" /\ printed' = "" /\ dispatch' = NoDispatch
  /\ UNCHANGED <<previousDir, cwd, cdHist, everChanged, gone, home, cmds, localVars,
                 fdVars, nextPid, announced, jobOf>>

Prompt ==
  /\ pc = "prompt"
  /\ pc' = "read"
  /\ UNCHANGED <<dirVars, gone, home, cmds, localVars, fdVars, procVars,
                 dispatch, jobVars>>

\* ------------------------------------------------------------ reading a line
\* "exit", or end of input
ReadExit ==
  /\ pc = "read"
  /\ pc' = "done"
  /\ UNCHANGED <<dirVars, gone, home, cmds, localVars, fdVars, procVars, dispatch,
                 jobVars>>

\* a getline error, a blank line, or a line the tokenizer rejects
ReadSkip ==
  /\ pc = "read"
  /\ pc' = "poll"
  /\ UNCHANGED <<dirVars, gone, home, cmds, localVars, fdVars, procVars, dispatch,
                 jobVars>>

\* a line that parses to the commands l
ReadLine(l) ==
  /\ pc = "read"
  /\ pc' = "parsed"
  /\ cmds' = l
  /\ UNCHANGED <<dirVars, gone, home, localVars, fdVars, procVars, dispatch, jobVars>>

\* ------------------------------------------------------------ cd
\* getcwd(): the path, or "" when it fails (the directory was removed)
Getcwd(dir, removed) == IF dir \in removed THEN "" ELSE dir

\* chdir(path) succeeds
ChdirOk(path, removed) == Resolve(path) \in Dirs \ removed

\* a shell that would never report OLDPWD as not set
MutOldpwdNeverUnset(prev) == FALSE

\* previousDir.empty() of line 150
OldpwdUnset(prev) == prev = ""

\* a shell that would never record the directory it leaves
MutUpdatePreviousNever(prev, currentDir) == prev

\* lines 162-164: previousDir after a successful chdir from currentDir
UpdatePrevious(prev, currentDir) == IF currentDir # "" THEN currentDir ELSE prev

\* a shell that would let cd run inside a pipeline or in the background
MutCdGuardsOff(l) == "none"

\* lines 126-134: the rejections before any directory is looked at
CdGuard(l) ==
  IF Len(l) > 1 THEN "err_pipeline"
  ELSE IF isBackground(l[1]) THEN "err_background"
  ELSE "none"

\* lines 136-175: the outcome of cd with arguments args
CdOutcome(args) ==
  LET currentDir == Getcwd(cwd, gone)
      dash == Len(args) >= 2 /\ args[2] = "-"
      early == IF Len(args) < 2 THEN (IF home = Null THEN "err_home" ELSE "none")
               ELSE IF dash THEN (IF OldpwdUnset(previousDir) THEN "err_oldpwd" ELSE "none")
               ELSE "none"
      targetPath == IF Len(args) < 2 THEN home ELSE IF dash THEN previousDir ELSE args[2]
  IN IF early # "none"
       THEN [result |-> early, cwd |-> cwd, prev |-> previousDir, printed |-> ""]
     ELSE IF ~ChdirOk(targetPath, gone)
       THEN [result |-> "err_chdir", cwd |-> cwd, prev |-> previousDir, printed |-> ""]
     ELSE [result |-> "ok", cwd |-> Resolve(targetPath),
           prev |-> UpdatePrevious(previousDir, currentDir),
           printed |-> IF dash THEN Getcwd(Resolve(targetPath), gone) ELSE ""]

IsCd(l) == l[1].args[1] = "cd"

CdBuiltin ==
  /\ pc = "parsed"
  /\ IsCd(cmds)
  /\ LET g == CdGuard(cmds)
         o == IF g # "none"
                THEN [result |-> g, cwd |-> cwd, prev |-> previousDir, printed |-> ""]
                ELSE CdOutcome(cmds[1].args)
         dash == Len(cmds[1].args) >= 2 /\ cmds[1].args[2] = "-"
     IN /\ cdResult' = o.result
        /\ cwd' = o.cwd
        /\ previousDir' = o.prev
        /\ printed' = o.printed
        /\ everChanged' = (everChanged \/ o.result = "ok")
        /\ cdHist' = IF o.result = "ok"
                       THEN [valid |-> TRUE, dash |-> dash,
                             afterDash |-> cdHist.valid /\ cdHist.dash,
                             known |-> Getcwd(cwd, gone) # "",
                             cwd |-> cwd, prev |-> previousDir]
                       ELSE NoHist
  /\ pc' = "poll"
  /\ cmds' = <<>>
  /\ UNCHANGED <<gone, home, localVars, fdVars, procVars, dispatch, jobVars>>

\* another process removes directory d
RemoveDir(d) ==
  /\ d \in Dirs \ gone
  /\ Cardinality(gone) < MaxGone
  /\ gone' = gone \cup {d}
  /\ UNCHANGED <<pc, dirVars, home, cmds, localVars, fdVars, procVars,
                 dispatch, jobVars>>

\* ------------------------------------------------------------ descriptor tables
\* the lowest descriptor not open in t, or -1 when the table is full
LowestFree(t) ==
  IF FdSet \subseteq DOMAIN t THEN -1
  ELSE CHOOSE f \in FdSet \ DOMAIN t : \A g \in FdSet \ DOMAIN t : f <= g
FdPut(t, f, obj) == [g \in DOMAIN t \cup {f} |-> IF g = f THEN obj ELSE t[g]]
FdDrop(t, f) == [g \in DOMAIN t \ {f} |-> t[g]]
\* dup2(old, new): the table afterwards (unchanged when old is not open)
Dup2(t, old, new) == IF FdOpen(t, old) THEN FdPut(t, new, t[old]) ELSE t

\* the shell's descriptor state: the table, the descriptors this shell
\* opened for a dispatch and has not closed, and whether a close was issued
\* on a descriptor that is not one of those
PState == [t |-> fdt, held |-> held, bad |-> badClose]
POpen(s, fd, obj) == [t |-> FdPut(s.t, fd, obj), held |-> s.held \cup {fd}, bad |-> s.bad]
PClose(s, fd) == [t |-> FdDrop(s.t, fd), held |-> s.held \ {fd},
                  bad |-> s.bad \/ fd \notin s.held]
SetPState(s) == fdt' = s.t /\ held' = s.held /\ badClose' = s.bad

numCommands == Len(cmds)
isLastCommandInPipeline == i = numCommands - 1
runInBackground == isBackground(cmds[Len(cmds)])

ResetLocals ==
  /\ origStdin' = -1 /\ origStdout' = -1 /\ i' = 0 /\ pipeInFd' = STDIN_FILENO
  /\ pipeFd' = <<-1, -1>> /\ lastPid' = -1 /\ pipePids' = <<>>
  /\ pipeline_setup_error' = FALSE
  /\ pipes' = <<>> /\ child' = NoChild
  /\ cmds' = <<>>

\* ------------------------------------------------------------ the child branch
\* A pipe pair <<r, w>> of the model is pipeFd[0], pipeFd[1] of the code.
ChildFail(t, why, made) == [t |-> t, fail |-> why, created |-> made]

\* a child that would take an input file at any stage
MutChildInputAnyPosition(c, t, inOk) ==
  IF hasInput(c.cmd)
    THEN LET fdIn == IF inOk THEN LowestFree(t) ELSE -1
         IN IF fdIn < 0 THEN ChildFail(t, "in_open", FALSE)
            ELSE [t |-> FdDrop(Dup2(FdPut(t, fdIn, InFileObj), fdIn, STDIN_FILENO), fdIn),
                  fail |-> "none", created |-> FALSE]
  ELSE [t |-> t, fail |-> "none", created |-> FALSE]

\* lines 217-231: the child's standard input
ChildInput(c, t, inOk) ==
  IF hasInput(c.cmd)
    THEN IF c.i # 0 THEN ChildFail(t, "in_position", FALSE)
         ELSE LET fdIn == IF inOk THEN LowestFree(t) ELSE -1
              IN IF fdIn < 0 THEN ChildFail(t, "in_open", FALSE)
                 ELSE [t |-> FdDrop(Dup2(FdPut(t, fdIn, InFileObj), fdIn, STDIN_FILENO), fdIn),
                       fail |-> "none", created |-> FALSE]
  ELSE IF c.pipeInFd # STDIN_FILENO
    THEN IF ~FdOpen(t, c.pipeInFd) THEN ChildFail(t, "in_dup2", FALSE)
         ELSE [t |-> FdDrop(Dup2(t, c.pipeInFd, STDIN_FILENO), c.pipeInFd),
               fail |-> "none", created |-> FALSE]
  ELSE [t |-> t, fail |-> "none", created |-> FALSE]

\* a child that would not connect its standard output to the pipe
MutChildOutputIgnoresPipe(c, t, outOk) ==
  IF hasOutput(c.cmd)
    THEN IF ~c.last THEN ChildFail(t, "out_position", FALSE)
         ELSE LET fdOut == IF outOk THEN LowestFree(t) ELSE -1
              IN IF fdOut < 0 THEN ChildFail(t, "out_open", FALSE)
                 ELSE [t |-> FdDrop(Dup2(FdPut(t, fdOut, OutFileObj), fdOut, STDOUT_FILENO), fdOut),
                       fail |-> "none", created |-> TRUE]
  ELSE [t |-> t, fail |-> "none", created |-> FALSE]

\* lines 234-250: the child's standard output
ChildOutput(c, t, outOk) ==
  IF hasOutput(c.cmd)
    THEN IF ~c.last THEN ChildFail(t, "out_position", FALSE)
         ELSE LET fdOut == IF outOk THEN LowestFree(t) ELSE -1
              IN IF fdOut < 0 THEN ChildFail(t, "out_open", FALSE)
                 ELSE [t |-> FdDrop(Dup2(FdPut(t, fdOut, OutFileObj), fdOut, STDOUT_FILENO), fdOut),
                       fail |-> "none", created |-> TRUE]
  ELSE IF ~c.last
    THEN IF ~FdOpen(t, c.pipeFd[2]) THEN ChildFail(t, "out_dup2", FALSE)
         ELSE [t |-> FdDrop(FdDrop(Dup2(t, c.pipeFd[2], STDOUT_FILENO), c.pipeFd[1]),
                            c.pipeFd[2]),
               fail |-> "none", created |-> FALSE]
  ELSE [t |-> t, fail |-> "none", created |-> FALSE]

\* a child that would redirect its output before its input
MutChildBranchOutputFirst(c, t, inOk, outOk, execOk) ==
  LET b == ChildOutput(c, t, outOk)
      a == ChildInput(c, b.t, inOk)
  IN IF b.fail # "none" THEN b
     ELSE IF a.fail # "none" THEN ChildFail(a.t, a.fail, b.created)
     ELSE IF ~execOk THEN ChildFail(a.t, "exec", b.created)
     ELSE [t |-> a.t, fail |-> "none", created |-> b.created]

\* lines 215-262: input redirection, output redirection, execvp
ChildBranch(c, t, inOk, outOk, execOk) ==
  LET a == ChildInput(c, t, inOk)
      b == ChildOutput(c, a.t, outOk)
  IN IF a.fail # "none" THEN a
     ELSE IF b.fail # "none" THEN b
     ELSE IF ~execOk THEN ChildFail(b.t, "exec", b.created)
     ELSE b

\* ------------------------------------------------------------ pipeline set-up
\* lines 181-190: save the standard streams, initialise the locals
BackupStdio ==
  /\ pc = "parsed"
  /\ ~IsCd(cmds)
  /\ \E ok1, ok2 \in BOOLEAN :
       LET fd1 == IF ok1 THEN LowestFree(fdt) ELSE -1
           s1 == IF fd1 = -1 THEN PState ELSE POpen(PState, fd1, FdObj(fdt, STDIN_FILENO))
           fd2 == IF fd1 # -1 /\ ok2 THEN LowestFree(s1.t) ELSE -1
           s2 == IF fd1 = -1 THEN s1
                 ELSE IF fd2 = -1 THEN PClose(s1, fd1)
                 ELSE POpen(s1, fd2, FdObj(fdt, STDOUT_FILENO))
       IN /\ SetPState(s2)
          /\ IF fd1 = -1 \/ fd2 = -1
               THEN /\ pc' = "poll" /\ ResetLocals
                    /\ dispatch' = [result |-> "dup_failed", k |-> 0, n |-> numCommands]
               ELSE /\ pc' = "pipe"
                    /\ UNCHANGED dispatch
                    /\ origStdin' = fd1 /\ origStdout' = fd2
                    /\ i' = 0 /\ pipeInFd' = STDIN_FILENO /\ pipeFd' = <<-1, -1>>
                    /\ lastPid' = -1 /\ pipePids' = <<>>
                    /\ pipeline_setup_error' = FALSE
                    /\ pipes' = <<>> /\ child' = NoChild
                    /\ UNCHANGED cmds
  /\ UNCHANGED <<dirVars, gone, home, procVars, jobVars>>

\* what the descriptors of table t refer to
Objects(t) == {t[f] : f \in DOMAIN t}
\* a pipe no descriptor of any process refers to
FreshPipe ==
  LET used == Objects(fdt) \cup UNION {Objects(procs[p].fds) : p \in DOMAIN procs}
  IN CHOOSE k \in 0..(MaxPids + 1) :
       /\ ReadEnd(k) \notin used /\ WriteEnd(k) \notin used
       /\ \A j \in 0..(k - 1) : ReadEnd(j) \in used \/ WriteEnd(j) \in used

\* lines 193-204: the pipe to the next stage, when there is a next stage
CreatePipe ==
  /\ pc = "pipe"
  /\ \E ok \in BOOLEAN :
       LET r == IF ok THEN LowestFree(fdt) ELSE -1
           s1 == IF r = -1 THEN PState ELSE POpen(PState, r, ReadEnd(FreshPipe))
           w == IF r = -1 THEN -1 ELSE LowestFree(s1.t)
           s2 == IF w = -1 THEN PState ELSE POpen(s1, w, WriteEnd(FreshPipe))
       IN IF isLastCommandInPipeline
            THEN /\ pipeFd' = <<-1, -1>>
                 /\ pc' = "fork"
                 /\ UNCHANGED <<fdVars, dispatch, pipeline_setup_error, pipes>>
          ELSE IF w = -1
            THEN /\ pipeline_setup_error' = TRUE
                 /\ pipeFd' = <<-1, -1>>
                 /\ pc' = "after"
                 /\ dispatch' = [result |-> "pipe_failed", k |-> i, n |-> numCommands]
                 /\ UNCHANGED <<fdVars, pipes>>
          ELSE /\ SetPState(s2)
               /\ pipeFd' = <<r, w>>
               /\ pipes' = Append(pipes, FreshPipe)
               /\ pc' = "fork"
               /\ UNCHANGED <<dispatch, pipeline_setup_error>>
  /\ UNCHANGED <<dirVars, gone, home, cmds, origStdin, origStdout, i,
                 pipeInFd, lastPid, pipePids, child, procVars, jobVars>>

\* line 209: fork failed, close the pipe just created
ForkFailure(s, last, pfd) ==
  IF last THEN s ELSE PClose(PClose(s, pfd[1]), pfd[2])

\* a shell that would keep the write end of the pipe open after the fork
MutParentKeepsWriteEnd(s, last, inFd, pfd) ==
  IF inFd # STDIN_FILENO THEN PClose(s, inFd) ELSE s

\* lines 270-279: what the parent closes after a fork
ParentCloses(s, last, inFd, pfd) ==
  LET s1 == IF inFd # STDIN_FILENO THEN PClose(s, inFd) ELSE s
  IN IF last THEN s1 ELSE PClose(s1, pfd[2])

\* the child of a fork: it runs the child branch on its copy of the shell's
\* descriptor table and locals, and either is the target program from then
\* on, with the table it has at execvp, or is about to exit(EXIT_FAILURE),
\* with the table it has at that point
Child(c, t, inOk, outOk, execOk) ==
  LET r == ChildBranch(c, t, inOk, outOk, execOk)
  IN [st |-> IF r.fail = "none" THEN "running" ELSE "failing", fds |-> r.t]

\* lines 206-280: fork the child of stage i, then the parent branch
ForkStage ==
  /\ pc = "fork"
  /\ \E ok, inOk, outOk, execOk \in BOOLEAN :
       LET pid == IF ok /\ nextPid <= MaxPids THEN nextPid ELSE -1
           last == isLastCommandInPipeline
           ctx == [i |-> i, last |-> last, pipeInFd |-> pipeInFd, pipeFd |-> pipeFd,
                   cmd |-> cmds[i + 1]]
       IN IF pid < 0
            THEN /\ SetPState(ForkFailure(PState, last, pipeFd))
                 /\ pipeline_setup_error' = TRUE
                 /\ pc' = "after"
                 /\ dispatch' = [result |-> "fork_failed", k |-> i, n |-> numCommands]
                 /\ UNCHANGED <<procVars, i, pipeInFd, lastPid, pipePids, child>>
          ELSE /\ procs' = (pid :> Child(ctx, fdt, inOk, outOk, execOk)) @@ procs
               /\ child' = LET r == ChildBranch(ctx, fdt, inOk, outOk, execOk)
                            IN [pid |-> pid, fail |-> r.fail, created |-> r.created]
               /\ nextPid' = nextPid + 1
               /\ pipePids' = Append(pipePids, pid)
               /\ lastPid' = IF last THEN pid ELSE lastPid
               /\ SetPState(ParentCloses(PState, last, pipeInFd, pipeFd))
               /\ pipeInFd' = IF last THEN pipeInFd ELSE pipeFd[1]
               /\ i' = i + 1
               /\ pc' = IF i + 1 < numCommands THEN "pipe" ELSE "after"
               /\ UNCHANGED <<dispatch, pipeline_setup_error>>
  /\ UNCHANGED <<dirVars, gone, home, cmds, origStdin, origStdout, pipeFd,
                 pipes, jobVars>>

\* a child terminates: the target program ends, or the child branch exits
ChildExit(p) ==
  /\ p \in DOMAIN procs
  /\ procs[p].st \in {"running", "failing"}
  /\ procs' = [procs EXCEPT ![p].st = "zombie", ![p].fds = AllClosed]
  /\ UNCHANGED <<pc, dirVars, gone, home, cmds, localVars, fdVars, nextPid,
                 dispatch, jobVars>>

\* ------------------------------------------------------------ after the set-up loop
\* a shell that would leave the read end of the last pipe open after an error
MutCleanupLeaksReadEnd(s, err, inFd) == s

\* lines 286-288: close the read end left over by a failed set-up
CloseDanglingReadEnd(s, err, inFd) ==
  IF err /\ inFd # STDIN_FILENO THEN PClose(s, inFd) ELSE s

\* a shell whose reaping of the other stages would wait for them
ReapFlagsBlocking == NoFlags

\* the flags of the waitpid calls of lines 291 and 329
ReapFlags == WNOHANG

\* waitpid with ReapFlags on every pid of pids from position k on, except skip
RECURSIVE ReapAll(_, _, _, _)
ReapAll(pids, k, ps, skip) ==
  IF k > Len(pids) THEN [ps |-> ps, blocked |-> FALSE]
  ELSE IF pids[k] = skip THEN ReapAll(pids, k + 1, ps, skip)
  ELSE LET r == WaitPid(ps, pids[k], ReapFlags) IN
    IF r.blocked THEN [ps |-> ps, blocked |-> TRUE]
    ELSE ReapAll(pids, k + 1, r.ps, skip)

\* lines 285-293 when set-up failed (line 296 then skips the dispatch)
SetupErrorCleanup ==
  /\ pc = "after"
  /\ pipeline_setup_error
  /\ SetPState(CloseDanglingReadEnd(PState, pipeline_setup_error, pipeInFd))
  /\ LET r == ReapAll(pipePids, 1, procs, -1) IN
       /\ ~r.blocked
       /\ procs' = r.ps
  /\ pc' = "restore"
  /\ UNCHANGED <<dirVars, gone, home, cmds, localVars, nextPid, dispatch,
                 jobVars>>

\* a shell that would dispatch whatever the set-up loop did
MutDispatchDespiteError(err, last) == TRUE

\* line 296: the pipeline is dispatched only when it was set up completely
SetupSucceeded(err, last) == ~err /\ last > 0

\* a shell that would register the last stage only
MutRegisterLastOnly(bp, pids) == Append(bp, pids[Len(pids)])

\* the start notice of line 302 and the registration of lines 303-306
Register(bp, pids) == bp \o pids
JobNumber(bp) == Len(bp) + 1

\* lines 296-307: a pipeline whose last command is background-flagged
BackgroundRegister ==
  /\ pc = "after"
  /\ SetupSucceeded(pipeline_setup_error, lastPid)
  /\ runInBackground
  /\ background_pids' = Register(background_pids, pipePids)
  /\ announced' = [p \in DOMAIN announced \cup {pipePids[k] : k \in 1..Len(pipePids)} |->
                     IF \E k \in 1..Len(pipePids) : pipePids[k] = p
                       THEN JobNumber(background_pids) ELSE announced[p]]
  /\ jobOf' = [p \in DOMAIN jobOf \cup {pipePids[k] : k \in 1..Len(pipePids)} |->
                 IF \E k \in 1..Len(pipePids) : pipePids[k] = p
                   THEN pipePids[1] ELSE jobOf[p]]
  /\ dispatch' = [result |-> "background", k |-> numCommands, n |-> numCommands]
  /\ pc' = "restore"
  /\ UNCHANGED <<dirVars, gone, home, cmds, localVars, fdVars, procVars,
                 doneNum, polled>>

\* a shell that would not wait for the last stage of a foreground pipeline
FgWaitFlagsNoHang == WNOHANG

\* the flags of the waitpid of line 311
FgWaitFlags == NoFlags

\* lines 308-331: wait for the last stage, then poll the other stages once
ForegroundWait ==
  /\ pc = "after"
  /\ SetupSucceeded(pipeline_setup_error, lastPid)
  /\ ~runInBackground
  /\ LET w == WaitPid(procs, lastPid, FgWaitFlags)
         r == ReapAll(pipePids, 1, w.ps, lastPid)
     IN /\ ~w.blocked
        /\ ~r.blocked
        /\ procs' = r.ps
  /\ dispatch' = [result |-> "foreground", k |-> numCommands, n |-> numCommands]
  /\ pc' = "restore"
  /\ UNCHANGED <<dirVars, gone, home, cmds, localVars, fdVars, nextPid,
                 jobVars>>

\* a shell that would restore each stream from the copy of the other
MutRestoreCrossed(t, in, out) == Dup2(Dup2(t, out, STDIN_FILENO), in, STDOUT_FILENO)

\* lines 337-338: the standard streams restored from the saved copies
RestoredTable(t, in, out) == Dup2(Dup2(t, in, STDIN_FILENO), out, STDOUT_FILENO)

\* lines 337-340, and the end of the iteration
RestoreStdio ==
  /\ pc = "restore"
  /\ LET t1 == RestoredTable(fdt, origStdin, origStdout)
         s1 == [t |-> t1, held |-> held, bad |-> badClose]
     IN SetPState(PClose(PClose(s1, origStdin), origStdout))
  /\ pc' = "poll"
  /\ ResetLocals
  /\ UNCHANGED <<dirVars, gone, home, procVars, dispatch, jobVars>>

\* ------------------------------------------------------------ the shell
\* one stage of a command line: a program, with or without redirections, or cd
Prog(in, out) == Cmd(<<"prog">>, in, out, FALSE)
Plain == Prog(FALSE, FALSE)
CdStage == Cmd(<<"cd", "/x">>, FALSE, FALSE, FALSE)
Special == {CdStage}
\* the lines of n stages with at most one stage that is not a plain program
StagesOf(n) ==
  {[k \in 1..n |-> Plain]}
    \cup {[k \in 1..n |-> IF k = at THEN c ELSE Plain] : at \in 1..n, c \in Special}
WithBackground(l, b) == [l EXCEPT ![Len(l)].bg = b]
Lines == {WithBackground(l, b) : l \in UNION {StagesOf(n) : n \in 1..MaxStages},
                                 b \in BOOLEAN}

\* the children line l can need
Needs(l) == IF IsCd(l) THEN 0 ELSE Len(l)

ReadAnyLine == \E l \in Lines : nextPid + Needs(l) - 1 <= MaxPids /\ ReadLine(l)

\* the steps of the shell other than reading input
PipelineStep ==
  \/ Poll
  \/ Prompt
  \/ BackupStdio
  \/ CreatePipe
  \/ ForkStage
  \/ SetupErrorCleanup
  \/ BackgroundRegister
  \/ ForegroundWait
  \/ RestoreStdio

ShellStep == CdBuiltin \/ PipelineStep

Next ==
  \/ CdBuiltin
  \/ PipelineStep
  \/ ReadExit
  \/ ReadSkip
  \/ ReadAnyLine
  \/ \E p \in Pids : ChildExit(p)

Spec == Init /\ [][Next]_vars

\* ------------------------------------------------------------ progress of the shell
\* the lines of plain programs, in the foreground or in the background
ProgLines == {WithBackground([k \in 1..n |-> Plain], b) : n \in 1..MaxStages, b \in BOOLEAN}

ReadProgLine == \E l \in ProgLines : nextPid + Needs(l) - 1 <= MaxPids /\ ReadLine(l)

NextProg ==
  \/ PipelineStep
  \/ ReadExit
  \/ ReadSkip
  \/ ReadProgLine
  \/ \E p \in Pids : ChildExit(p)

\* The shell runs whenever it can: it is suspended only in getline and in
\* the foreground waitpid.  Nothing says that a line is ever typed or that
\* a program ever ends.
FairSpec == Init /\ [][NextProg]_vars /\ WF_vars(PipelineStep)

\* ------------------------------------------------------------ pipelines with redirections
\* the lines of programs with exactly one stage that has a redirection
Redirected == {Prog(TRUE, FALSE), Prog(FALSE, TRUE), Prog(TRUE, TRUE)}
RedirStagesOf(n) ==
  {[k \in 1..n |-> IF k = at THEN c ELSE Plain] : at \in 1..n, c \in Redirected}
RedirLines ==
  {WithBackground(l, b) : l \in UNION {RedirStagesOf(n) : n \in 1..MaxStages},
                          b \in BOOLEAN}

ReadRedirLine == \E l \in RedirLines : nextPid + Needs(l) - 1 <= MaxPids /\ ReadLine(l)

NextRedir ==
  \/ PipelineStep
  \/ ReadExit
  \/ ReadSkip
  \/ ReadRedirLine
  \/ \E p \in Pids : ChildExit(p)

SpecRedir == Init /\ [][NextRedir]_vars

\* ------------------------------------------------------------ pipelines and their pipes
\* the lines of plain programs, and those with one stage that has both an
\* input and an output file: the child of such a stage exits in one of its
\* redirections unless it is the only stage
PipeStagesOf(n) ==
  {[k \in 1..n |-> Plain]}
    \cup {[k \in 1..n |-> IF k = at THEN Prog(TRUE, TRUE) ELSE Plain] : at \in 1..n}
PipeLines ==
  {WithBackground(l, b) : l \in UNION {PipeStagesOf(n) : n \in 1..MaxStages},
                          b \in BOOLEAN}

ReadPipeLine == \E l \in PipeLines : nextPid + Needs(l) - 1 <= MaxPids /\ ReadLine(l)

NextPipe ==
  \/ PipelineStep
  \/ ReadExit
  \/ ReadSkip
  \/ ReadPipeLine
  \/ \E p \in Pids : ChildExit(p)

SpecPipe == Init /\ [][NextPipe]_vars

\* ------------------------------------------------------------ directory navigation alone
CdArgs == {<<"cd">>, <<"cd", "-">>} \cup {<<"cd", p>> : p \in PathArgs}
CdLines ==
  {<<Cmd(a, FALSE, FALSE, b)>> : a \in CdArgs, b \in BOOLEAN}
    \cup {<<Cmd(a, FALSE, FALSE, FALSE), Cmd(<<"prog">>, FALSE, FALSE, FALSE)>> : a \in CdArgs}

ReadCdLine == \E l \in CdLines : ReadLine(l)

NextCd ==
  \/ Poll
  \/ Prompt
  \/ ReadExit
  \/ ReadSkip
  \/ ReadCdLine
  \/ CdBuiltin
  \/ \E d \in Dirs : RemoveDir(d)

SpecCd == InitCd /\ [][NextCd]_vars

\* ------------------------------------------------------------ claims on cd
CdErrors == {"err_pipeline", "err_background", "err_home", "err_oldpwd", "err_chdir"}
\* the step that runs the cd built-in
CdStep == pc = "parsed" /\ IsCd(cmds) /\ pc' = "poll"
CdArgsNow == cmds[1].args
CdDash == Len(CdArgsNow) >= 2 /\ CdArgsNow[2] = "-"
CdTargetNow == IF Len(CdArgsNow) < 2 THEN home ELSE IF CdDash THEN previousDir ELSE CdArgsNow[2]
CdUnchanged ==
  /\ cwd' = cwd /\ previousDir' = previousDir
  /\ nextPid' = nextPid /\ procs' = procs

\* C4: every failing cd (in a pipeline, background-flagged, no argument and
\* HOME unset, "-" with no stored previous directory, or chdir failing) is
\* reported as that failure, creates no process and leaves the working
\* directory and the previous-directory value as they were.
C4_FailingCdChangesNothing ==
  [][CdStep =>
       /\ (Len(cmds) > 1 => cdResult' = "err_pipeline")
       /\ (Len(cmds) = 1 /\ isBackground(cmds[1]) => cdResult' = "err_background")
       /\ (Len(cmds) = 1 /\ ~isBackground(cmds[1]) =>
             /\ (Len(CdArgsNow) < 2 /\ home = Null => cdResult' = "err_home")
             /\ (CdDash /\ previousDir = "" => cdResult' = "err_oldpwd")
             /\ (~ChdirOk(CdTargetNow, gone) => cdResult' \in CdErrors))
       /\ (cdResult' \in CdErrors => CdUnchanged)]_vars

\* a cd whose chdir failed, with a previous directory stored
C4_Witness ==
  /\ pc = "poll" /\ cdResult = "err_chdir" /\ previousDir # ""

C6_Original ==
  [][(CdStep /\ Len(cmds) = 1 /\ ~isBackground(cmds[1]) /\ CdDash /\ ~everChanged) =>
       cdResult' = "err_oldpwd"]_vars

\* C6 amended: the previous-directory value starts as $PWD (or the current
\* directory when PWD is unset) and is afterwards set only by a successful
\* directory change; cd - reports "not set" and attempts no change exactly
\* when that value is empty.
C6_DashFailsOnlyWhenEmpty ==
  [][/\ (previousDir' # previousDir => CdStep /\ cdResult' = "ok")
     /\ (CdStep /\ Len(cmds) = 1 /\ ~isBackground(cmds[1]) /\ CdDash =>
           /\ (cdResult' = "err_oldpwd") = (previousDir = "")
           /\ (previousDir = "" => cwd' = cwd /\ everChanged' = everChanged))]_vars

\* the first command of a session is cd - and finds nothing stored
C6_Witness ==
  /\ cdResult = "err_oldpwd" /\ ~everChanged /\ previousDir = ""

\* ------------------------------------------------------------ claims on pipelines
AtLoopTop == pc \in {"poll", "prompt", "read", "parsed", "done"}
Alive(p) == p \in DOMAIN procs /\ procs[p].st \in {"running", "failing"}
InBackground(p) == \E k \in 1..Len(background_pids) : background_pids[k] = p
\* the shell is at the waitpid of line 311
FgWaitPoint ==
  pc = "after" /\ ~pipeline_setup_error /\ lastPid > 0 /\ ~runInBackground

\* C1: whenever the shell is back at the top of the read loop, it holds no
\* descriptor opened or duplicated by a dispatch (only 0, 1 and 2 are open)
\* and every close it issued hit a descriptor it had opened and not yet
\* closed: each was closed exactly once, on the success path and after a
\* pipe or fork failure at any stage.
C1_ParentClosesEachDescriptorOnce ==
  AtLoopTop => held = {} /\ ~badClose /\ DOMAIN fdt = 0..2

\* back at the top of the loop after fork failed at the middle stage of a
\* three-stage pipeline
C1_Witness ==
  /\ pc = "poll" /\ dispatch = [result |-> "fork_failed", k |-> 1, n |-> 3]
  /\ Cardinality(DOMAIN procs) = 1

\* C2 as stated: when a child executes its target program, every descriptor
\* the shell opened or duplicated for the dispatch is closed in it: nothing
\* but 0, 1 and 2 is open.
C2_Original ==
  \A p \in DOMAIN procs : procs[p].st = "running" => DOMAIN procs[p].fds \subseteq 0..2

\* C3 as stated: a line of more than one stage with cd at any position is
\* rejected; no stage of it is spawned.
C3_Original ==
  (Len(cmds) > 1 /\ \E k \in 1..Len(cmds) : cmds[k].args[1] = "cd")
    => pipePids = <<>>

\* C7 as stated: once a tracked background process has exited while the
\* shell waits for input, its completion is reported although no further
\* line is supplied.
C7_Original ==
  \A p \in Pids :
    (pc = "read" /\ InBackground(p) /\ procs[p].st = "zombie")
      ~> (p \in DOMAIN doneNum \/ pc # "read")

\* C7 amended: the completion of a tracked background process is reported
\* by the first poll that runs after it exited; polls run only at the top of
\* the read loop, so the report comes once the shell is back there, after a
\* further input line, and never while the shell waits for input.  A poll
\* that has such a process to report always completes.
C7_ReportedAtNextPoll ==
  /\ [][/\ (pc = "poll" /\ pc' # "poll" =>
              \A p \in Pids : InBackground(p) /\ procs[p].st = "zombie" =>
                /\ p \in DOMAIN doneNum' /\ p \notin DOMAIN doneNum
                /\ ~InBackground(p)' /\ procs'[p].st = "reaped")
        /\ (doneNum' # doneNum => pc = "poll")]_vars
  /\ (pc = "poll" /\ \E p \in Pids : InBackground(p) /\ procs[p].st = "zombie")
       ~> (pc = "prompt")

\* a background process was reported done
C7_Witness ==
  /\ pc = "prompt" /\ \E p \in DOMAIN doneNum : procs[p].st = "reaped" /\ ~InBackground(p)

\* C8: the shell can always take its next step, whatever the children are
\* doing, except while it reads input and at the foreground waitpid; there
\* it can go on exactly when the last stage is no longer alive.
C8_OnlyForegroundWaitBlocks ==
  /\ (pc \notin {"read", "done"} /\ ~FgWaitPoint => ENABLED ShellStep)
  /\ (FgWaitPoint => (ENABLED ShellStep <=> ~Alive(lastPid)))

\* after a failed set-up the shell went on while a stage was still alive
C8_Witness ==
  /\ pc = "restore" /\ pipeline_setup_error
  /\ \E k \in 1..Len(pipePids) : Alive(pipePids[k])

\* C9: while the last stage of a successfully set-up foreground pipeline is
\* alive the shell does not move: it renders no prompt and forks nothing;
\* it leaves the wait only with that stage reaped.
C9_ForegroundBlocksUntilLastStageExits ==
  [][/\ (FgWaitPoint /\ Alive(lastPid) => pc' = pc /\ nextPid' = nextPid /\ cmds' = cmds)
     /\ (FgWaitPoint /\ pc' # pc => ~Alive(lastPid) /\ procs'[lastPid].st = "reaped")
     /\ (pc' = "read" /\ pc # "read" => pc = "prompt")
     /\ (pc' = "prompt" /\ pc # "prompt" => pc = "poll")]_vars

\* the shell left the foreground wait of a three-stage pipeline
C9_Witness ==
  /\ pc = "restore" /\ dispatch.result = "foreground" /\ Len(pipePids) = 3
  /\ procs[lastPid].st = "reaped"

\* C10 as stated: when a foreground pipeline has completed, every stage of
\* it has been reaped.
C10_Original ==
  (pc = "restore" /\ dispatch.result = "foreground")
    => \A k \in 1..Len(pipePids) : procs[pipePids[k]].st = "reaped"

\* ------------------------------------------------------------ claims on redirections
\* stage k (from 0) of n has a redirection the position rules forbid
BadPosition(c, k, n) == (hasInput(c) /\ k # 0) \/ (hasOutput(c) /\ k # n - 1)
\* the step in which fork() succeeded for stage i
Forked == pc = "fork" /\ nextPid' = nextPid + 1
\* the step that leaves line 296 with a pipeline that was set up
Dispatched == pc = "after" /\ ~pipeline_setup_error /\ pc' = "restore"

\* C11: a stage with an input file that is not first, or with an output file
\* that is not last, has a child that exits with EXIT_FAILURE before execvp
\* and never runs its program; the parent goes on to the next stage without
\* a set-up error, and with every stage forked the pipeline is waited for
\* or registered like any other.
C11_MisplacedRedirectionFailsOnlyItsStage ==
  /\ [](pc = "after" /\ Len(pipePids) = numCommands =>
          ~pipeline_setup_error /\ lastPid = pipePids[numCommands])
  /\ [][/\ (Forked /\ BadPosition(cmds[i + 1], i, numCommands) =>
              /\ procs'[nextPid].st = "failing"
              /\ child'.pid = nextPid /\ child'.fail \notin {"none", "exec"}
              /\ ~pipeline_setup_error'
              /\ pipePids' = Append(pipePids, nextPid)
              /\ i' = i + 1
              /\ pc' = IF i + 1 < numCommands THEN "pipe" ELSE "after")
        /\ (\A p \in DOMAIN procs : procs[p].st # "running" => procs'[p].st # "running")
        /\ (Dispatched =>
              IF runInBackground
                THEN background_pids' = background_pids \o pipePids /\ procs' = procs
                ELSE background_pids' = background_pids /\ procs'[lastPid].st = "reaped")]_vars

\* a foreground pipeline with a misplaced redirection was waited for
C11_Witness ==
  /\ pc = "restore" /\ dispatch.result = "foreground" /\ numCommands >= 2
  /\ \E k \in 1..numCommands : BadPosition(cmds[k], k - 1, numCommands)
  /\ procs[lastPid].st = "reaped"

\* ------------------------------------------------------------ claims on set-up failures
\* C12: after pipe() or fork() failed at stage k the children of the
\* pipeline are those of stages 0..k-1 and no other is forked; the shell
\* goes on to the restore and the next prompt whatever those children do,
\* without waiting for any of them; and the background list is left as it
\* was, whether or not the line was background-flagged.
C12_SetupFailureStopsAndDoesNotDispatch ==
  /\ [](pipeline_setup_error =>
          /\ pc \in {"after", "restore"}
          /\ dispatch.result \in {"pipe_failed", "fork_failed"}
          /\ dispatch.k = i /\ Len(pipePids) = i /\ i < numCommands
          /\ ENABLED ShellStep)
  /\ [][pipeline_setup_error =>
          /\ nextPid' = nextPid
          /\ background_pids' = background_pids
          /\ (pc' # "poll" => pipePids' = pipePids)
          /\ (pc' # pc => pc' = IF pc = "after" THEN "restore" ELSE "poll")]_vars

\* a background-flagged pipeline whose set-up failed after a first stage was
\* forked, that stage still alive when the shell goes on
C12_Witness ==
  /\ pc = "restore" /\ pipeline_setup_error /\ runInBackground
  /\ dispatch.k >= 1 /\ Alive(pipePids[1])
  /\ background_pids = <<>>

\* ------------------------------------------------------------ claims on the job list
\* the step that runs the reaping loop
PollStep == pc = "poll" /\ pc' = "prompt"
Exited(p) == procs[p].st = "zombie"

\* C13: one run of the reaping loop calls waitpid once on each pid of the
\* list, in list order; afterwards the list holds the pids whose process
\* was still alive, in the same order, and there is one Done notice for
\* each pid whose process had exited, the notices in list order.
C13_PollChecksEachHandleOnce ==
  [][PollStep =>
       /\ polled'.checked = background_pids
       /\ background_pids' = SelectSeq(background_pids, Alive)
       /\ polled'.done = SelectSeq(background_pids, Exited)
       /\ \A k \in 1..Len(background_pids) :
            Exited(background_pids[k]) => procs'[background_pids[k]].st = "reaped"]_vars

\* a poll reported two neighbours of the list and kept another pid
C13_Witness ==
  /\ pc = "prompt" /\ background_pids # <<>>
  /\ \E k \in 1..(Len(polled.checked) - 1) :
       \E m \in 1..(Len(polled.done) - 1) :
         polled.done[m] = polled.checked[k] /\ polled.done[m + 1] = polled.checked[k + 1]

\* the step that registers a background pipeline
RegisterStep == Dispatched /\ runInBackground
\* the background pipelines with a pid in the list
OutstandingJobs == {jobOf[background_pids[k]] : k \in 1..Len(background_pids)}

\* C14 as stated: the number in the start notice of a background pipeline
\* is the number of background pipelines with a pid still in the list, plus
\* one.
C14_Original ==
  [][RegisterStep => announced'[lastPid] = Cardinality(OutstandingJobs) + 1]_vars

\* the pids in the list
Tracked == {background_pids[k] : k \in 1..Len(background_pids)}

\* C15: the list changes only when a completely set-up pipeline whose last
\* command is background-flagged is registered, all its pids appended
\* together, and when the reaping loop removes pids; a foreground dispatch
\* and a failed set-up leave it alone.  So it holds the pids registered and
\* not yet reported by a poll, and no pid twice.
C15_ListHoldsRegisteredUnreaped ==
  /\ [](/\ Tracked = DOMAIN jobOf \ DOMAIN doneNum
         /\ Cardinality(Tracked) = Len(background_pids))
  /\ [][/\ (background_pids' # background_pids => RegisterStep \/ PollStep)
        /\ (RegisterStep =>
              /\ background_pids' = background_pids \o pipePids
              /\ Len(pipePids) = numCommands /\ isBackground(cmds[numCommands])
              /\ \A k \in 1..numCommands : jobOf'[pipePids[k]] = pipePids[1])
        /\ (PollStep => background_pids' = SelectSeq(background_pids, Alive))]_vars

\* one stage of a two-stage background pipeline was reported, the other is
\* still in the list, and a foreground process exists
C15_Witness ==
  /\ pc = "prompt" /\ Len(background_pids) = 1
  /\ \E p \in DOMAIN doneNum : jobOf[p] = jobOf[background_pids[1]]
  /\ \E p \in DOMAIN procs : p \notin DOMAIN jobOf

\* ------------------------------------------------------------ claims on the standard streams
\* C16: the shell's standard input and standard output refer to what they
\* referred to when the shell started, before, during and after every
\* dispatch, however the dispatch ended.
C16_StandardStreamsKept ==
  /\ STDIN_FILENO \in DOMAIN fdt /\ fdt[STDIN_FILENO] = StdinObj
  /\ STDOUT_FILENO \in DOMAIN fdt /\ fdt[STDOUT_FILENO] = StdoutObj

\* the shell restored its streams after a background dispatch and after a
\* set-up that failed with a child already forked
C16_Witness ==
  /\ pc = "poll" /\ dispatch.result = "fork_failed" /\ dispatch.k >= 1
  /\ background_pids # <<>>

\* ------------------------------------------------------------ claims on the wiring of a pipeline
\* the child branch ended in its input redirection
InputFailures == {"in_position", "in_open", "in_dup2"}
\* what the child forked in this step has as descriptor f
ChildFd(f) == FdObj(procs'[nextPid].fds, f)
\* the standard input the place of stage i gives it when it has no input
\* file, and the standard output when it has no output file
WiredInput == IF i = 0 THEN fdt[STDIN_FILENO] ELSE ReadEnd(pipes[i])
WiredOutput ==
  IF isLastCommandInPipeline THEN fdt[STDOUT_FILENO] ELSE WriteEnd(pipes[i + 1])
\* the pipes made so far are those of the stages before i, and that of
\* stage i once pipe() was called for it
PipesInStep ==
  Len(pipes) = IF pc = "fork" /\ ~isLastCommandInPipeline THEN i + 1 ELSE i

\* C17 as stated: every stage that is forked has, when it has no input
\* file, the standard input its place in the pipeline gives it, and when
\* it has no output file, the standard output its place gives it.
C17_Original ==
  [][Forked =>
       /\ (~hasInput(cmds[i + 1]) => ChildFd(STDIN_FILENO) = WiredInput)
       /\ (~hasOutput(cmds[i + 1]) => ChildFd(STDOUT_FILENO) = WiredOutput)]_vars

\* C17 amended: a pipeline of N stages set up completely has made N-1
\* pipes; the pipe of stage i exists, both ends open in the shell, when
\* stage i is forked, and stages are forked in order.  A stage without an
\* input file has the shell's standard input when first and else the read
\* end of the pipe of the stage before it; a stage without an output file
\* whose child got past its input redirection has the shell's standard
\* output when last and else the write end of its own pipe.  A child that
\* exits in its input redirection has not touched its standard output.
C17_PipesWireNeighbours ==
  /\ [](~pipeline_setup_error =>
          /\ (pc \in {"pipe", "fork"} => PipesInStep)
          /\ (pc = "after" => Len(pipes) = numCommands - 1 /\ Len(pipePids) = numCommands))
  /\ [][Forked =>
         /\ Len(pipePids) = i
         /\ (~isLastCommandInPipeline =>
               /\ FdObj(fdt, pipeFd[1]) = ReadEnd(pipes[i + 1])
               /\ FdObj(fdt, pipeFd[2]) = WriteEnd(pipes[i + 1]))
         /\ (~hasInput(cmds[i + 1]) => ChildFd(STDIN_FILENO) = WiredInput)
         /\ (child'.fail \notin InputFailures /\ ~hasOutput(cmds[i + 1]) =>
               ChildFd(STDOUT_FILENO) = WiredOutput)
         /\ (child'.fail \in InputFailures =>
               ChildFd(STDOUT_FILENO) = fdt[STDOUT_FILENO])]_vars

\* the middle stage of three runs between the two pipes of its pipeline
C17_Witness ==
  /\ pc = "after" /\ numCommands = 3 /\ Len(pipes) = 2 /\ Len(pipePids) = 3
  /\ procs[pipePids[2]].st = "running"
  /\ procs[pipePids[2]].fds[STDIN_FILENO] = ReadEnd(pipes[1])
  /\ procs[pipePids[2]].fds[STDOUT_FILENO] = WriteEnd(pipes[2])

\* ------------------------------------------------------------ claims on the child branch
\* C18: a child that exits in its input redirection (input file at a stage
\* other than the first, or open or dup2 failing) has not created or
\* truncated its output file and never runs the program; a child runs the
\* program exactly when neither redirection nor execvp failed, and then an
\* input file is its standard input and an output file, created by then,
\* its standard output.
C18_ChildRedirectsInputThenOutputThenExec ==
  [][Forked =>
       /\ (hasInput(cmds[i + 1]) /\ i # 0 => child'.fail = "in_position")
       /\ (child'.fail \in InputFailures => ~child'.created)
       /\ (child'.created => hasOutput(cmds[i + 1]) /\ isLastCommandInPipeline)
       /\ (procs'[nextPid].st = "running" <=> child'.fail = "none")
       /\ (child'.fail = "none" =>
             /\ (hasInput(cmds[i + 1]) => ChildFd(STDIN_FILENO) = InFileObj)
             /\ (hasOutput(cmds[i + 1]) =>
                   ChildFd(STDOUT_FILENO) = OutFileObj /\ child'.created))]_vars

\* a command with both redirections whose input file could not be opened:
\* its child gave up with the output file untouched
C18_Witness ==
  /\ pc = "after" /\ numCommands = 1
  /\ hasInput(cmds[1]) /\ hasOutput(cmds[1])
  /\ child.fail = "in_open" /\ ~child.created
  /\ procs[child.pid].st \in {"failing", "zombie"}

\* ------------------------------------------------------------ claims on the ends of a pipe
IsPipeEnd(obj) == obj >= PipeBase
IsWriteEnd(obj) == IsPipeEnd(obj) /\ obj % 2 = 1
IsReadEnd(obj) == IsPipeEnd(obj) /\ obj % 2 = 0
\* the children with a descriptor that refers to obj, and where a process
\* with table t has obj
Holders(obj) == {p \in DOMAIN procs : obj \in Objects(procs[p].fds)}
Slots(t, obj) == {f \in DOMAIN t : t[f] = obj}
\* position j of pipes is the latest pipe of this set-up loop with its name
Latest(j) == \A m \in (j + 1)..Len(pipes) : pipes[m] # pipes[j]

\* C19: the write end of a pipe is open in the shell only between pipe()
\* and the end of the parent branch of the fork that follows; apart from
\* that it is open in the child of the stage the pipe was made for and in
\* no other process, as that child's standard output alone once it runs
\* the program; when that child has exited, it is open nowhere.  The read
\* end is open only in the shell, in that child until it runs the program,
\* and in the child forked next, as its standard input alone once it runs.
C19_PipeEndsStayWithTheirStages ==
  /\ \A f \in DOMAIN fdt :
       IsWriteEnd(fdt[f]) => pc = "fork" /\ f = pipeFd[2] /\ Holders(fdt[f]) = {}
  /\ \A p \in DOMAIN procs :
       \A f \in DOMAIN procs[p].fds :
         LET obj == procs[p].fds[f] IN
           /\ IsWriteEnd(obj) =>
                /\ Holders(obj) = {p}
                /\ Holders(obj - 1) \subseteq {p, p + 1}
                /\ procs[p].st = "running" =>
                     f = STDOUT_FILENO /\ Slots(procs[p].fds, obj - 1) = {}
           /\ IsReadEnd(obj) =>
                /\ Holders(obj) \subseteq {p - 1, p, p + 1}
                /\ procs[p].st = "running" =>
                     f = STDIN_FILENO /\ Holders(obj + 1) \subseteq {p - 1}
  /\ \A j \in 1..Len(pipes) :
       Latest(j) =>
         /\ Holders(WriteEnd(pipes[j])) \subseteq
              (IF Len(pipePids) >= j THEN {pipePids[j]} ELSE {})
         /\ Holders(ReadEnd(pipes[j])) \subseteq
              {pipePids[m] : m \in {j, j + 1} \cap (1..Len(pipePids))}
         /\ (Len(pipePids) >= j /\ ~Alive(pipePids[j]) =>
               Holders(WriteEnd(pipes[j])) = {} /\ Slots(fdt, WriteEnd(pipes[j])) = {})

\* a stage has exited and the next one reads from their pipe, whose write
\* end is open nowhere
C19_Witness ==
  \E j \in 1..Len(pipes) :
    /\ Len(pipePids) > j /\ Latest(j)
    /\ procs[pipePids[j]].st = "zombie"
    /\ procs[pipePids[j + 1]].st = "running"
    /\ procs[pipePids[j + 1]].fds[STDIN_FILENO] = ReadEnd(pipes[j])
    /\ Holders(WriteEnd(pipes[j])) = {} /\ Slots(fdt, WriteEnd(pipes[j])) = {}

\* ------------------------------------------------------------ claims on job numbers
\* C20 as stated: the number in the Done notice of a background process is
\* the number its pipeline was announced with, and two pipelines with pids
\* in the list were not announced with the same number.
C20_Original ==
  /\ \A p \in DOMAIN doneNum : doneNum[p] = announced[p]
  /\ \A p, q \in Tracked : announced[p] = announced[q] => jobOf[p] = jobOf[q]

====
